---------------------------- MODULE Spec2Model ----------------------------
(***************************************************************************)
(* A model of reaction-diffusion_demo.ipynb: the periodic five-point       *)
(* Laplacian (laplacian_discretization), the reaction terms (f_reaction,   *)
(* g_reaction), the single forward Euler step (forward_euler_step), the    *)
(* implicit diffusion solve (backward_euler_diffusion_step) and the two    *)
(* drivers (forward_euler_coupled_solver, imex_solver).                    *)
(*                                                                         *)
(* Real numbers are exact rationals <<n, d>> in lowest terms with d > 0:   *)
(* the model states the arithmetic the code is meant to perform and leaves *)
(* float64 rounding aside.  A Python exception is an outcome of its own    *)
(* (the string naming it); the scalar parameters are Python numbers, as at *)
(* every call site of the notebook, so a division by zero raises           *)
(* ZeroDivisionError.                                                      *)
(***************************************************************************)
EXTENDS Integers, Sequences, FiniteSets, TLC

(***************************************************************************)
(* Exact rational arithmetic.                                              *)
(***************************************************************************)
Abs(x) == IF x < 0 THEN -x ELSE x

RECURSIVE GCD(_, _)
GCD(a, b) == IF b = 0 THEN a ELSE GCD(b, a % b)

Norm(n, d) ==
    LET g == GCD(Abs(n), Abs(d))
        s == IF d < 0 THEN -1 ELSE 1
    IN  <<(s * n) \div g, (s * d) \div g>>

R(n, d) == Norm(n, d)
Z(n) == <<n, 1>>
Zero == <<0, 1>>
One == <<1, 1>>

RAdd(a, b) ==
    LET g == GCD(a[2], b[2])
    IN  Norm(a[1] * (b[2] \div g) + b[1] * (a[2] \div g), (a[2] \div g) * b[2])

RNeg(a) == <<-a[1], a[2]>>
RSub(a, b) == RAdd(a, RNeg(b))

RMul(a, b) ==
    LET g1 == GCD(Abs(a[1]), b[2])
        g2 == GCD(Abs(b[1]), a[2])
    IN  Norm((a[1] \div g1) * (b[1] \div g2), (a[2] \div g2) * (b[2] \div g1))

\* a / b for b # 0
RDiv(a, b) == RMul(a, Norm(b[2], b[1]))

RLe(a, b) == a[1] * b[2] <= b[1] * a[2]
RLt(a, b) == a[1] * b[2] < b[1] * a[2]
RFloor(a) == a[1] \div a[2]

\* numpy.round: to the nearest integer, a tie to the even one
NumpyRound(a) ==
    LET fl == RFloor(a)
        twice == RSub(RMul(Z(2), a), Z(2 * fl))   \* 2 * (a - floor(a)), in [0, 2)
    IN  IF RLt(twice, One) THEN fl
        ELSE IF RLt(One, twice) THEN fl + 1
        ELSE IF fl % 2 = 0 THEN fl ELSE fl + 1

(***************************************************************************)
(* Vectors are functions on 0..n-1, matrices functions of two such.        *)
(***************************************************************************)
Idx(n) == 0 .. (n - 1)

\* The value x, computed once: TLC keeps a function expression unevaluated until
\* it is compared, and would evaluate nested ones again at every use.
Force(x) == IF x = x THEN x ELSE x

RECURSIVE RSumTo(_, _)
\* f[0] + ... + f[k-1]
RSumTo(f, k) == IF k = 0 THEN Zero ELSE RAdd(RSumTo(f, k - 1), f[k - 1])

VecSum(u) == RSumTo(u, Cardinality(DOMAIN u))

VecAdd(u, v) == Force([p \in DOMAIN u |-> RAdd(u[p], v[p])])
VecScale(c, u) == Force([p \in DOMAIN u |-> RMul(c, u[p])])

\* A * U for a sparse matrix A and a flat array U
MatVec(A, u) ==
    Force([p \in DOMAIN A |->
        LET row == A[p]
            terms == Force([q \in DOMAIN u |->
                         IF row[q] = Zero THEN Zero ELSE RMul(row[q], u[q])])
        IN  RSumTo(terms, Cardinality(DOMAIN u))])

MatScale(c, A) ==
    Force([p \in DOMAIN A |-> [q \in DOMAIN A |-> RMul(c, A[p][q])]])


(***************************************************************************)
(* Outcomes: a call returns a value or raises a Python exception.          *)
(***************************************************************************)
None == <<>>
Ok(v) == [err |-> "", val |-> v]
Raise(e) == [err |-> e, val |-> None]

(***************************************************************************)
(* The scipy.sparse calls of laplacian_discretization.  Before the scaling *)
(* by delta_x**2 every entry is an integer.                                *)
(***************************************************************************)
HasDuplicates(s) == \E a, b \in DOMAIN s : a # b /\ s[a] = s[b]

\* spdiags if dia_matrix accepted repeated offsets
spdiags_NoDuplicateCheck(vals, diags, n) ==
    Ok(Force([p \in Idx(n) |-> [q \in Idx(n) |->
            IF \E k \in DOMAIN diags : q - p = diags[k]
            THEN vals[CHOOSE k \in DOMAIN diags : q - p = diags[k]]
            ELSE 0]]))

\* sparse.spdiags(data, diags, n, n) where row k of data is vals[k] * ones(n):
\* entry (p, q) is vals[k] on the diagonal q - p = diags[k].  dia_matrix raises
\* ValueError ("offset array contains duplicate values") when two offsets agree.
spdiags(vals, diags, n) ==
    IF HasDuplicates(diags) THEN Raise("ValueError")
    ELSE Ok(Force([p \in Idx(n) |-> [q \in Idx(n) |->
                IF \E k \in DOMAIN diags : q - p = diags[k]
                THEN vals[CHOOSE k \in DOMAIN diags : q - p = diags[k]]
                ELSE 0]]))

\* sparse.eye(m)
eye(m) == Force([p \in Idx(m) |-> [q \in Idx(m) |-> IF p = q THEN 1 ELSE 0]])

\* sparse.kron(B, C) for m x m matrices B and C
kron(B, C, m) ==
    Force([p \in Idx(m * m) |-> [q \in Idx(m * m) |->
        B[p \div m][q \div m] * C[p % m][q % m]]])

MatAddInt(B, C) ==
    Force([p \in DOMAIN B |-> [q \in DOMAIN B |-> B[p][q] + C[p][q]]])

\* delta_x = 2.0 / (m + 1)
LapDeltaX(m) == R(2, m + 1)

\* the primary discretization without the coupling between the blocks
LapPrimary_NoCross(m) ==
    LET T == [p \in Idx(m) |-> [q \in Idx(m) |->
                 IF p = q THEN -4 ELSE IF q - p \in {-1, 1} THEN 1 ELSE 0]]
    IN  Force([p \in Idx(m * m) |-> [q \in Idx(m * m) |->
            IF p \div m = q \div m THEN T[p % m][q % m] ELSE 0]])

\* "Primary discretization": T, S, I and A = kron(I, T) + kron(S, I)
LapPrimary(m) ==
    LET T == spdiags(<<1, -4, 1>>, <<-1, 0, 1>>, m).val
        S == spdiags(<<1, 1>>, <<-1, 1>>, m).val
        I == eye(m)
    IN  MatAddInt(kron(I, T, m), kron(S, I, m))

\* the periodic diagonals with the one above the main diagonal alone
LapPeriodicDiags_UpperOnly(m) ==
    IF m < 2 THEN Raise("ValueError")
    ELSE Ok(Force([p \in Idx(m * m) |-> [q \in Idx(m * m) |->
                IF q - p = m * m - m THEN 1 ELSE 0]]))

\* A_periodic = sparse.spdiags([e, e], [m - m**2, m**2 - m], m**2, m**2).tolil()
LapPeriodicDiags(m) == spdiags(<<1, 1>>, <<m - m * m, m * m - m>>, m * m)

\* a pass of the loop that sets the entry of the block's first row alone
LapWrapRow_OneSided(P, k, m) == [P EXCEPT ![k * m][(k + 1) * m - 1] = 1]

\* One pass of the "Left & right BCs" loop: two entries set (not added) to 1.0
LapWrapRow(P, k, m) ==
    LET P1 == [P EXCEPT ![k * m][(k + 1) * m - 1] = 1]
    IN  [P1 EXCEPT ![(k + 1) * m - 1][k * m] = 1]

RECURSIVE LapWrapRows(_, _, _)
\* the loop for i in range(m), from pass k on
LapWrapRows(P, k, m) ==
    IF k >= m THEN P ELSE LapWrapRows(LapWrapRow(P, k, m), k + 1, m)

\* A = A + A_periodic; A /= delta_x**2; A = A.todia()
LapCombine(B, P, m) ==
    LET dx2 == RMul(LapDeltaX(m), LapDeltaX(m))
    IN  Force([p \in DOMAIN B |-> [q \in DOMAIN B |->
            RDiv(Z(B[p][q] + P[p][q]), dx2)]])

\* The whole function: the matrix it returns, or the exception it raises
laplacian_discretization(m) ==
    LET P == LapPeriodicDiags(m)
    IN  IF P.err # "" THEN Raise(P.err)
        ELSE Ok(LapCombine(LapPrimary(m), LapWrapRows(P.val, 0, m), m))

(***************************************************************************)
(* Reaction terms.  par is the record of the scalar parameters sigma,      *)
(* tau_1, tau_2, alpha, beta, gamma (and D_1, D_2 for the drivers); U and  *)
(* V are flat arrays and the arithmetic is elementwise.                    *)
(***************************************************************************)
\* alpha * U * (1.0 - tau_1 * V**2) + V * (1.0 - tau_2 * U)
f_reaction(U, V, par) ==
    Force([p \in DOMAIN U |->
        RAdd(RMul(RMul(par.alpha, U[p]),
                  RSub(One, RMul(par.tau_1, RMul(V[p], V[p])))),
             RMul(V[p], RSub(One, RMul(par.tau_2, U[p]))))])

\* beta * V * (1.0 + alpha * tau_1 / beta * U * V) + U * (gamma + tau_2 * V):
\* the scalar quotient alpha * tau_1 / beta is evaluated first and raises
\* ZeroDivisionError when beta is zero
g_reaction(U, V, par) ==
    IF par.beta = Zero THEN Raise("ZeroDivisionError")
    ELSE LET c == RDiv(RMul(par.alpha, par.tau_1), par.beta)
         IN  Ok(Force([p \in DOMAIN U |->
                RAdd(RMul(RMul(par.beta, V[p]),
                          RAdd(One, RMul(RMul(c, U[p]), V[p]))),
                     RMul(U[p], RAdd(par.gamma, RMul(par.tau_2, V[p]))))]))

(***************************************************************************)
(* Time stepping.                                                          *)
(***************************************************************************)
\* the defaults of forward_euler_step's keyword arguments D1=0.5, D2=1.0
D1_default == R(1, 2)
D2_default == One

\* forward_euler_step(U, V, delta_t, A, sigma, f, g, D1, D2) with f and g the
\* lambdas over f_reaction and g_reaction with the parameters par
forward_euler_step(U, V, delta_t, A, sigma, par, D1, D2) ==
    LET fUV == f_reaction(U, V, par)
        U_new == VecAdd(U, VecScale(delta_t,
                     VecAdd(MatVec(MatScale(RMul(sigma, D1), A), U), fUV)))
        gUV == g_reaction(U, V, par)
    IN  IF gUV.err # "" THEN Raise(gUV.err)
        ELSE Ok(<<U_new,
                  VecAdd(V, VecScale(delta_t,
                     VecAdd(MatVec(MatScale(RMul(sigma, D2), A), V), gUV.val)))>>)

\* forward_euler_reaction_step(U, V, delta_t, f, g)
forward_euler_reaction_step(U, V, delta_t, par) ==
    LET gUV == g_reaction(U, V, par)
    IN  IF gUV.err # "" THEN Raise(gUV.err)
        ELSE Ok(<<VecAdd(U, VecScale(delta_t, f_reaction(U, V, par))),
                  VecAdd(V, VecScale(delta_t, gUV.val))>>)

\* sparse.eye(A.shape[0]) - delta_t * sigma * D * A
SystemMatrix(A, delta_t, sigma, D) ==
    LET c == RMul(RMul(delta_t, sigma), D)
    IN  Force([p \in DOMAIN A |-> [q \in DOMAIN A |->
            RSub(IF p = q THEN One ELSE Zero, RMul(c, A[p][q]))]])

RECURSIVE GaussJordan(_, _, _)
\* Row reduction of the n x (n+1) augmented matrix G from column k on; None
\* when a column has no pivot (a singular matrix)
GaussJordan(G, k, n) ==
    IF k = n THEN G
    ELSE LET cand == {r \in k .. (n - 1) : G[r][k] # Zero}
         IN  IF cand = {} THEN None
             ELSE LET r == CHOOSE x \in cand : \A y \in cand : x <= y
                      Gs == [G EXCEPT ![k] = G[r], ![r] = G[k]]
                      rowk == Force([q \in 0 .. n |-> RDiv(Gs[k][q], Gs[k][k])])
                      Gn == Force([p \in Idx(n) |->
                               IF p = k \/ Gs[p][k] = Zero
                               THEN (IF p = k THEN rowk ELSE Gs[p])
                               ELSE [q \in 0 .. n |->
                                        RSub(Gs[p][q], RMul(Gs[p][k], rowk[q]))]])
                  IN  GaussJordan(Gn, k + 1, n)

\* linalg.spsolve(M, b): the x with M x = b
spsolve(M, b) ==
    LET n == Cardinality(DOMAIN b)
        G == Force([p \in Idx(n) |-> [q \in 0 .. n |-> IF q = n THEN b[p] ELSE M[p][q]]])
        E == GaussJordan(G, 0, n)
    IN  IF E = None THEN None ELSE Force([p \in Idx(n) |-> E[p][n]])

\* backward_euler_diffusion_step(U, V, A, delta_t, sigma, D_1, D_2)
backward_euler_diffusion_step(U, V, A, delta_t, sigma, D_1, D_2) ==
    <<spsolve(SystemMatrix(A, delta_t, sigma, D_1), U),
      spsolve(SystemMatrix(A, delta_t, sigma, D_2), V)>>

(***************************************************************************)
(* Bounds of the model and constants of the notebook.                      *)
(***************************************************************************)
\* laplacian_discretization is called with every m in 0 .. MaxM
MaxM == 4
\* the drivers' grid size (m = 150 in the notebook), scaled down
GridM == 2
\* applications of forward_euler_step in a row
MaxApps == 2

\* A = laplacian_discretization(4), the operator the notebook builds
NotebookM == 4
\* forward_euler_coupled_solver: t_final = 300.0, next_output_time += 50.0
ExplicitTFinal == 300
ExplicitInterval == 50
\* imex_solver: t_final = 30.0, next_output_time += 5.0
ImexTFinal == 30
ImexInterval == 5

(***************************************************************************)
(* Inputs.                                                                 *)
(***************************************************************************)
Par(sigma, tau_1, tau_2, alpha, beta, gamma, D_1, D_2) ==
    [sigma |-> sigma, tau_1 |-> tau_1, tau_2 |-> tau_2, alpha |-> alpha,
     beta |-> beta, gamma |-> gamma, D_1 |-> D_1, D_2 |-> D_2]

Const(n, c) == Force([p \in Idx(n) |-> c])
Impulse(n, c) == Force([p \in Idx(n) |-> IF p = 0 THEN c ELSE Zero])

\* parameters and two-point arrays for the direct calls of the reaction terms
ReactionPars ==
    {Par(One, t1, t2, a, b, g, One, One) :
        t1 \in {Zero, Z(2)}, t2 \in {Zero, One}, a \in {Zero, One},
        b \in {Zero, Z(-1)}, g \in {Zero, Z(-1)}}

ReactionArrays == {Const(2, Zero), Const(2, One), [p \in Idx(2) |-> R(p + 1, 2)]}

\* reaction coefficients <<tau_1, tau_2, alpha, beta, gamma>> of the stepping
\* runs: no reaction term at all (beta = 0), decay of V only, and a set with
\* gamma = -alpha as in the notebook's runs
Reactions ==
    {<<Zero, Zero, Zero, Zero, Zero>>,
     <<Zero, Zero, Zero, Z(-1), Zero>>,
     <<Z(2), Zero, One, Z(-1), Z(-1)>>}

FieldPairs(n) ==
    {Const(n, Zero), Const(n, One), Impulse(n, One)}
        \X {Const(n, Zero), Const(n, One), Impulse(n, One)}

\* forward_euler_step applied directly to the notebook's A: sigma = 1,
\* delta_t = delta_x**2 / (4 * sigma), and the reaction terms linear
StepPars ==
    {Par(One, r[1], r[2], r[3], r[4], r[5], d[1], d[2]) :
        r \in {x \in Reactions : x[1] = Zero /\ x[2] = Zero},
        d \in {<<One, One>>, <<R(1, 2), One>>}}

StepDeltaT == RDiv(RMul(LapDeltaX(NotebookM), LapDeltaX(NotebookM)), Z(4))

\* The drivers take sigma from the caller and derive delta_t from it; the
\* model picks the sigma that gives the step sizes below.
DriverDeltaX == R(2, GridM)
ExplicitDts == {Z(40), Z(50), R(600, 13), Z(100), Z(120), Z(250), Z(700)}
ExplicitSigma(dt) == RDiv(RMul(DriverDeltaX, DriverDeltaX), RMul(Z(5), dt))
ExplicitPars ==
    {Par(ExplicitSigma(dt), r[1], r[2], r[3], r[4], r[5], d[1], d[2]) :
        dt \in ExplicitDts, r \in Reactions,
        d \in {<<D1_default, D2_default>>, <<One, R(1, 2)>>}}

ImexDts == {Z(4), Z(5), R(60, 13), Z(10), Z(12), Z(25), Z(70)}
ImexSigma(dt) == RDiv(DriverDeltaX, RMul(Z(10), dt))
\* the diffusion coefficient for which delta_t * sigma * D * A is k times the
\* integer stencil: delta_t * sigma = delta_x / 10 in imex_solver
ImexD(k) ==
    RDiv(RMul(k, RMul(Z(10), RMul(LapDeltaX(GridM), LapDeltaX(GridM)))), DriverDeltaX)
ImexPars ==
    {Par(ImexSigma(dt), r[1], r[2], r[3], r[4], r[5], d[1], d[2]) :
        dt \in ImexDts, r \in Reactions,
        d \in {<<ImexD(R(1, 2)), ImexD(One)>>, <<ImexD(One), ImexD(One)>>}}

\* constant fields at which both reaction terms vanish: the run stays there
IsSteady(par, uv) ==
    /\ \A p \in DOMAIN uv[1] : uv[1][p] = uv[1][0] /\ uv[2][p] = uv[2][0]
    /\ f_reaction(uv[1], uv[2], par) = Const(Cardinality(DOMAIN uv[1]), Zero)
    /\ g_reaction(uv[1], uv[2], par) = Ok(Const(Cardinality(DOMAIN uv[1]), Zero))

\* numpy.random.randn(m, m) / 2.0, reshaped: the draws the model follows.  A
\* run of one iteration starts from any pair of fields; a longer run starts
\* from a steady state, which keeps the exact fractions of the fields short
\* (the loop's control does not read the fields).
InitialData(par, n, steps) ==
    {uv \in FieldPairs(n) : steps <= 1 \/ IsSteady(par, uv)}

(***************************************************************************)
(* State.                                                                  *)
(***************************************************************************)
VARIABLES
    op,                 \* the function called
    pc,                 \* the position in it; "done" and "raised" are final
    m,                  \* grid size (argument of laplacian_discretization)
    par,                \* the scalar parameters of the call
    U, V,               \* the fields
    A,                  \* the Laplacian
    A_periodic,         \* laplacian_discretization's local
    i,                  \* its loop index: the next pass of "for i in range(m)"
    delta_t, t, num_steps, next_output_time,
    j,                  \* the drivers' loop variable; -1 before the loop
    plots,              \* the figures drawn inside the loop: <<t, U>> each
    applied,            \* forward_euler_step called directly: calls returned
    ret,                \* the value returned
    err                 \* the exception raised, "" for none

vars == <<op, pc, m, par, U, V, A, A_periodic, i, delta_t, t, num_steps,
          next_output_time, j, plots, applied, ret, err>>

Calls ==
    {[op |-> "laplacian_discretization", pc |-> "primary", m |-> mm, par |-> None,
      U |-> None, V |-> None, A |-> None, delta_t |-> None] : mm \in 0 .. MaxM}
    \cup
    {[op |-> f, pc |-> "call", m |-> 0, par |-> pp, U |-> uu, V |-> vv,
      A |-> None, delta_t |-> None] :
        f \in {"f_reaction", "g_reaction"}, pp \in ReactionPars,
        uu \in ReactionArrays, vv \in ReactionArrays}
    \cup
    {[op |-> "forward_euler_step", pc |-> "call", m |-> NotebookM, par |-> pp,
      U |-> uv[1], V |-> uv[2], A |-> laplacian_discretization(NotebookM).val,
      delta_t |-> StepDeltaT] :
        pp \in StepPars, uv \in FieldPairs(NotebookM * NotebookM)}
    \cup
    {[op |-> "forward_euler_coupled_solver", pc |-> "setup", m |-> 0, par |-> pp,
      U |-> None, V |-> None, A |-> None, delta_t |-> None] : pp \in ExplicitPars}
    \cup
    {[op |-> "imex_solver", pc |-> "setup", m |-> 0, par |-> pp,
      U |-> None, V |-> None, A |-> None, delta_t |-> None] : pp \in ImexPars}

Init ==
    \E c \in Calls :
        /\ op = c.op /\ pc = c.pc /\ m = c.m /\ par = c.par
        /\ U = c.U /\ V = c.V /\ A = c.A /\ delta_t = c.delta_t
        /\ A_periodic = None /\ i = 0
        /\ t = None /\ num_steps = 0 /\ next_output_time = None
        /\ j = -1 /\ plots = <<>> /\ applied = 0 /\ ret = None /\ err = ""

(***************************************************************************)
(* laplacian_discretization(m), statement by statement.                    *)
(***************************************************************************)
\* delta_x, e, T, S, I, A = kron(I, T) + kron(S, I)
LapPrimaryStep ==
    /\ op = "laplacian_discretization" /\ pc = "primary"
    /\ A' = LapPrimary(m)
    /\ pc' = "periodic"
    /\ UNCHANGED <<op, m, par, U, V, A_periodic, i, delta_t, t, num_steps,
                   next_output_time, j, plots, applied, ret, err>>

\* the statement with LapPeriodicDiags_UpperOnly for the two diagonals
LapPeriodicStep_UpperOnly ==
    /\ op = "laplacian_discretization" /\ pc = "periodic"
    /\ LET P == LapPeriodicDiags_UpperOnly(m)
       IN  IF P.err # ""
           THEN /\ err' = P.err /\ pc' = "raised"
                /\ UNCHANGED <<A_periodic, i>>
           ELSE /\ A_periodic' = P.val /\ i' = 0 /\ pc' = "wrap"
                /\ UNCHANGED err
    /\ UNCHANGED <<op, m, par, U, V, A, delta_t, t, num_steps,
                   next_output_time, j, plots, applied, ret>>

\* e = numpy.ones(m**2); A_periodic = sparse.spdiags(...).tolil()
LapPeriodicStep ==
    /\ op = "laplacian_discretization" /\ pc = "periodic"
    /\ LET P == LapPeriodicDiags(m)
       IN  IF P.err # ""
           THEN /\ err' = P.err /\ pc' = "raised"
                /\ UNCHANGED <<A_periodic, i>>
           ELSE /\ A_periodic' = P.val /\ i' = 0 /\ pc' = "wrap"
                /\ UNCHANGED err
    /\ UNCHANGED <<op, m, par, U, V, A, delta_t, t, num_steps,
                   next_output_time, j, plots, applied, ret>>

\* a pass that runs LapWrapRow_OneSided
LapWrapStep_OneSided ==
    /\ op = "laplacian_discretization" /\ pc = "wrap" /\ i < m
    /\ A_periodic' = LapWrapRow_OneSided(A_periodic, i, m)
    /\ i' = i + 1
    /\ UNCHANGED <<op, pc, m, par, U, V, A, delta_t, t, num_steps,
                   next_output_time, j, plots, applied, ret, err>>

\* one pass of "for i in range(m)"
LapWrapStep ==
    /\ op = "laplacian_discretization" /\ pc = "wrap" /\ i < m
    /\ A_periodic' = LapWrapRow(A_periodic, i, m)
    /\ i' = i + 1
    /\ UNCHANGED <<op, pc, m, par, U, V, A, delta_t, t, num_steps,
                   next_output_time, j, plots, applied, ret, err>>

\* A = A + A_periodic; A /= delta_x**2; A = A.todia(); return A
LapCombineStep ==
    /\ op = "laplacian_discretization" /\ pc = "wrap" /\ i >= m
    /\ A' = LapCombine(A, A_periodic, m)
    /\ ret' = A'
    /\ pc' = "done"
    /\ UNCHANGED <<op, m, par, U, V, A_periodic, i, delta_t, t, num_steps,
                   next_output_time, j, plots, applied, err>>

(***************************************************************************)
(* Direct calls of the reaction terms and of forward_euler_step.           *)
(***************************************************************************)
FCall ==
    /\ op = "f_reaction" /\ pc = "call"
    /\ ret' = f_reaction(U, V, par)
    /\ pc' = "done"
    /\ UNCHANGED <<op, m, par, U, V, A, A_periodic, i, delta_t, t, num_steps,
                   next_output_time, j, plots, applied, err>>

GCall ==
    /\ op = "g_reaction" /\ pc = "call"
    /\ LET r == g_reaction(U, V, par)
       IN  IF r.err # ""
           THEN err' = r.err /\ pc' = "raised" /\ UNCHANGED ret
           ELSE ret' = r.val /\ pc' = "done" /\ UNCHANGED err
    /\ UNCHANGED <<op, m, par, U, V, A, A_periodic, i, delta_t, t, num_steps,
                   next_output_time, j, plots, applied>>

\* U, V = forward_euler_step(U, V, delta_t, A, sigma, f, g, D1, D2), again
\* and again on the fields it returned
StepCall ==
    /\ op = "forward_euler_step" /\ pc = "call" /\ applied < MaxApps
    /\ LET r == forward_euler_step(U, V, delta_t, A, par.sigma, par, par.D_1, par.D_2)
       IN  IF r.err # ""
           THEN /\ err' = r.err /\ pc' = "raised"
                /\ UNCHANGED <<U, V, applied, ret>>
           ELSE /\ U' = r.val[1] /\ V' = r.val[2]
                /\ ret' = r.val
                /\ applied' = applied + 1
                /\ UNCHANGED <<pc, err>>
    /\ UNCHANGED <<op, m, par, A, A_periodic, i, delta_t, t, num_steps,
                   next_output_time, j, plots>>

(***************************************************************************)
(* The drivers.                                                            *)
(***************************************************************************)
\* the test of the output branch with > for >=
OutputDue_Strict(tt, nxt) == RLt(nxt, tt)

\* if t >= next_output_time
OutputDue(tt, nxt) == RLe(nxt, tt)

\* delta_t = delta_x**2 / (5.0 * sigma)
ExplicitDeltaT(sigma) == RDiv(RMul(DriverDeltaX, DriverDeltaX), RMul(Z(5), sigma))
\* delta_t = delta_x / (10.0 * sigma)
ImexDeltaT(sigma) == RDiv(DriverDeltaX, RMul(Z(10), sigma))
\* num_steps = int(numpy.round(t_final / delta_t))
NumSteps(t_final, dt) == NumpyRound(RDiv(Z(t_final), dt))

\* forward_euler_coupled_solver up to the loop: grid, initial data, A, time
ExplicitSetup ==
    /\ op = "forward_euler_coupled_solver" /\ pc = "setup"
    /\ m' = GridM
    /\ delta_t' = ExplicitDeltaT(par.sigma)
    /\ num_steps' = NumSteps(ExplicitTFinal, delta_t')
    /\ \E uv \in InitialData(par, GridM * GridM, num_steps') :
          U' = uv[1] /\ V' = uv[2]
    /\ A' = laplacian_discretization(GridM).val
    /\ t' = Zero
    /\ next_output_time' = Zero
    /\ pc' = "loop"
    /\ UNCHANGED <<op, par, A_periodic, i, j, plots, applied, ret, err>>

\* for j in range(num_steps)
ExplicitLoop ==
    /\ op = "forward_euler_coupled_solver" /\ pc = "loop"
    /\ IF j + 1 < num_steps
       THEN j' = j + 1 /\ pc' = "step"
       ELSE j' = j /\ pc' = "done"
    /\ UNCHANGED <<op, m, par, U, V, A, A_periodic, i, delta_t, t, num_steps,
                   next_output_time, plots, applied, ret, err>>

\* U, V = forward_euler_step(U, V, delta_t, A, sigma, f, g); t += delta_t
\* (D1 and D2 are not passed: the step runs on its defaults)
ExplicitIteration ==
    /\ op = "forward_euler_coupled_solver" /\ pc = "step"
    /\ LET r == forward_euler_step(U, V, delta_t, A, par.sigma, par,
                                   D1_default, D2_default)
       IN  IF r.err # ""
           THEN /\ err' = r.err /\ pc' = "raised"
                /\ UNCHANGED <<U, V, t>>
           ELSE /\ U' = r.val[1] /\ V' = r.val[2]
                /\ t' = RAdd(t, delta_t)
                /\ pc' = "output"
                /\ UNCHANGED err
    /\ UNCHANGED <<op, m, par, A, A_periodic, i, delta_t, num_steps,
                   next_output_time, j, plots, applied, ret>>

\* if t >= next_output_time: next_output_time += 50.0 and a figure of U
ExplicitOutput ==
    /\ op = "forward_euler_coupled_solver" /\ pc = "output"
    /\ IF OutputDue(t, next_output_time)
       THEN /\ next_output_time' = RAdd(next_output_time, Z(ExplicitInterval))
            /\ plots' = Append(plots, <<t, U>>)
       ELSE UNCHANGED <<next_output_time, plots>>
    /\ pc' = "loop"
    /\ UNCHANGED <<op, m, par, U, V, A, A_periodic, i, delta_t, t, num_steps,
                   j, applied, ret, err>>

\* imex_solver up to the loop
ImexSetup ==
    /\ op = "imex_solver" /\ pc = "setup"
    /\ m' = GridM
    /\ delta_t' = ImexDeltaT(par.sigma)
    /\ num_steps' = NumSteps(ImexTFinal, delta_t')
    /\ \E uv \in InitialData(par, GridM * GridM, num_steps') :
          U' = uv[1] /\ V' = uv[2]
    /\ A' = laplacian_discretization(GridM).val
    /\ t' = Zero
    /\ next_output_time' = Zero
    /\ pc' = "loop"
    /\ UNCHANGED <<op, par, A_periodic, i, j, plots, applied, ret, err>>

\* for j in range(num_steps)
ImexLoop ==
    /\ op = "imex_solver" /\ pc = "loop"
    /\ IF j + 1 < num_steps
       THEN j' = j + 1 /\ pc' = "diffusion"
       ELSE j' = j /\ pc' = "done"
    /\ UNCHANGED <<op, m, par, U, V, A, A_periodic, i, delta_t, t, num_steps,
                   next_output_time, plots, applied, ret, err>>

\* U, V = backward_euler_diffusion_step(U, V, A, delta_t, sigma, D_1, D_2)
ImexDiffusion ==
    /\ op = "imex_solver" /\ pc = "diffusion"
    /\ LET r == backward_euler_diffusion_step(U, V, A, delta_t, par.sigma,
                                              par.D_1, par.D_2)
       IN  U' = r[1] /\ V' = r[2]
    /\ pc' = "reaction"
    /\ UNCHANGED <<op, m, par, A, A_periodic, i, delta_t, t, num_steps,
                   next_output_time, j, plots, applied, ret, err>>

\* U, V = forward_euler_step(U, V, delta_t, A, sigma, f, g); t += delta_t
ImexReaction ==
    /\ op = "imex_solver" /\ pc = "reaction"
    /\ LET r == forward_euler_step(U, V, delta_t, A, par.sigma, par,
                                   D1_default, D2_default)
       IN  IF r.err # ""
           THEN /\ err' = r.err /\ pc' = "raised"
                /\ UNCHANGED <<U, V, t>>
           ELSE /\ U' = r.val[1] /\ V' = r.val[2]
                /\ t' = RAdd(t, delta_t)
                /\ pc' = "output"
                /\ UNCHANGED err
    /\ UNCHANGED <<op, m, par, A, A_periodic, i, delta_t, num_steps,
                   next_output_time, j, plots, applied, ret>>

\* if t >= next_output_time: next_output_time += 5.0 and a figure of U
ImexOutput ==
    /\ op = "imex_solver" /\ pc = "output"
    /\ IF OutputDue(t, next_output_time)
       THEN /\ next_output_time' = RAdd(next_output_time, Z(ImexInterval))
            /\ plots' = Append(plots, <<t, U>>)
       ELSE UNCHANGED <<next_output_time, plots>>
    /\ pc' = "loop"
    /\ UNCHANGED <<op, m, par, U, V, A, A_periodic, i, delta_t, t, num_steps,
                   j, applied, ret, err>>

Next ==
    \/ LapPrimaryStep \/ LapPeriodicStep \/ LapWrapStep \/ LapCombineStep
    \/ FCall \/ GCall \/ StepCall
    \/ ExplicitSetup \/ ExplicitLoop \/ ExplicitIteration \/ ExplicitOutput
    \/ ImexSetup \/ ImexLoop \/ ImexDiffusion \/ ImexReaction \/ ImexOutput

Spec == Init /\ [][Next]_vars

(***************************************************************************)
(* Properties of laplacian_discretization.                                 *)
(***************************************************************************)
LapDone == op = "laplacian_discretization" /\ pc = "done"

\* 1 / delta_x**2
InvDx2(mm) == R((mm + 1) * (mm + 1), 4)

\* the flat indices of the four periodic neighbours of point p = i*m + j
Neighbours(p, mm) ==
    LET ii == p \div mm
        jj == p % mm
    IN  {((ii + 1) % mm) * mm + jj, ((ii + mm - 1) % mm) * mm + jj,
         ii * mm + ((jj + 1) % mm), ii * mm + ((jj + mm - 1) % mm)}

NonZeros(row) == {q \in DOMAIN row : row[q] # Zero}

\* C1: the matrix laplacian_discretization(m) returns is symmetric,
\* A[p,q] = A[q,p] for all p, q, the periodic wrap entries included (the two
\* diagonals at +/-(m^2 - m) and the entries (i*m, i*m+m-1), (i*m+m-1, i*m)).
C1_Symmetric ==
    LapDone =>
        /\ \A p, q \in Idx(m * m) : ret[p][q] = ret[q][p]
        /\ \A k \in Idx(m) :
              /\ ret[k * m][k * m + m - 1] = ret[k * m + m - 1][k * m]
              /\ ret[k][k + m * m - m] = ret[k + m * m - m][k]

C1_Witness ==
    /\ LapDone /\ m = 3
    /\ ret[0][6] = InvDx2(3) /\ ret[6][0] = InvDx2(3)
    /\ ret[3][5] = InvDx2(3) /\ ret[5][3] = InvDx2(3)

\* C2: every row of the matrix laplacian_discretization(m) returns sums to
\* zero, so A * U is the zero vector for every constant field U.
C2_RowSumsZero ==
    LapDone =>
        /\ \A p \in Idx(m * m) : RSumTo(ret[p], m * m) = Zero
        /\ \A c \in {One, Z(-3), R(5, 7)} :
              MatVec(ret, Const(m * m, c)) = Const(m * m, Zero)

C2_Witness ==
    /\ LapDone /\ m = 4
    /\ ret[5][5] = RMul(Z(-4), InvDx2(4))
    /\ MatVec(ret, Const(16, R(5, 7))) = Const(16, Zero)

\* C3 as claimed: for every m >= 2 every row p has exactly 5 non-zero
\* entries, -4/dx^2 on the diagonal and +1/dx^2 in exactly the four columns
\* of the periodic neighbours of p.
C3_FiveNonZeros ==
    (LapDone /\ m >= 2) =>
        \A p \in Idx(m * m) :
            /\ Cardinality(NonZeros(ret[p])) = 5
            /\ ret[p][p] = RMul(Z(-4), InvDx2(m))
            /\ \A q \in Neighbours(p, m) : ret[p][q] = InvDx2(m)
            /\ \A q \in Idx(m * m) \ (Neighbours(p, m) \cup {p}) : ret[p][q] = Zero

\* C3, amended: that holds for every m >= 3.  For m = 2 the two neighbours
\* along an axis are one point: a row has 3 non-zero entries, -4/dx^2 on the
\* diagonal and +2/dx^2 in the two columns of its neighbours.
C3_FivePointStencil ==
    LapDone =>
        \A p \in Idx(m * m) :
            /\ ret[p][p] = RMul(Z(-4), InvDx2(m))
            /\ \A q \in Idx(m * m) \ (Neighbours(p, m) \cup {p}) : ret[p][q] = Zero
            /\ m >= 3 =>
                  /\ Cardinality(NonZeros(ret[p])) = 5
                  /\ Cardinality(Neighbours(p, m)) = 4
                  /\ \A q \in Neighbours(p, m) : ret[p][q] = InvDx2(m)
            /\ m = 2 =>
                  /\ Cardinality(NonZeros(ret[p])) = 3
                  /\ \A q \in Neighbours(p, m) : ret[p][q] = RMul(Z(2), InvDx2(m))

C3_Witness ==
    /\ LapDone /\ m = 3
    /\ NonZeros(ret[4]) = {1, 3, 4, 5, 7}
    /\ NonZeros(ret[0]) = {0, 1, 2, 3, 6}

\* C4 as claimed: called with m = 0 or m = 1 the function ends in an error at
\* entry (nothing is built before it) and returns no matrix; m = 2 is
\* accepted and returns a 4 x 4 matrix.
C4_RejectedAtEntry ==
    op = "laplacian_discretization" =>
        /\ m < 2 => pc \in {"primary", "raised"} /\ A = None /\ ret = None
        /\ (m = 2 /\ pc = "done") =>
              DOMAIN ret = Idx(4) /\ \A p \in Idx(4) : DOMAIN ret[p] = Idx(4)

\* C4, amended: called with m = 0 or m = 1 the function ends in an error and
\* returns no matrix, but not at entry: the interior operator is built
\* first, and the ValueError comes from spdiags, whose two offsets m - m^2
\* and m^2 - m are both 0.  From m = 2 on no error is raised; m = 2 returns
\* a 4 x 4 matrix.
C4_Rejected ==
    op = "laplacian_discretization" =>
        /\ m < 2 =>
              /\ pc \in {"primary", "periodic", "raised"}
              /\ ret = None
              /\ pc = "raised" => err = "ValueError" /\ A = LapPrimary(m)
        /\ m >= 2 => pc # "raised" /\ err = ""
        /\ (m = 2 /\ pc = "done") =>
              DOMAIN ret = Idx(4) /\ \A p \in Idx(4) : DOMAIN ret[p] = Idx(4)

C4_Witness ==
    /\ op = "laplacian_discretization" /\ m = 1
    /\ pc = "raised" /\ err = "ValueError" /\ ret = None
    /\ A = [p \in Idx(1) |-> [q \in Idx(1) |-> -4]]

(***************************************************************************)
(* Properties of the reaction terms and of the steppers.                   *)
(***************************************************************************)
\* C5: for every value of the parameters, beta = 0 included, f_reaction and
\* g_reaction called with U = V = 0 both return 0 (no error, no undefined
\* value).
C5_ZeroAtOrigin ==
    (/\ op \in {"f_reaction", "g_reaction"}
     /\ U = Const(2, Zero) /\ V = Const(2, Zero)
     /\ pc # "call")
        => pc = "done" /\ err = "" /\ ret = Const(2, Zero)

\* sigma = 1, D1 = D2 = 1 and tau_1 = tau_2 = alpha = beta = gamma = 0
NoReactionPar == Par(One, Zero, Zero, Zero, Zero, Zero, One, One)

\* C6: with m = 4 and the parameters NoReactionPar, whatever the fields, every
\* application of forward_euler_step returns fields, and the sum of the
\* entries of U after it is the sum before it (hence the initial sum after any
\* number of applications).
C6_SumConserved ==
    [][(op = "forward_euler_step" /\ m = 4 /\ par = NoReactionPar /\ pc = "call")
          => (pc' = "call" /\ VecSum(U') = VecSum(U))]_vars

\* C7: an iteration of imex_solver is the documented scheme: phase 1 solves
\* (I - dt*sigma*D_1*A) U* = U_n and (I - dt*sigma*D_2*A) V* = V_n, and phase
\* 2 adds the reaction term alone, U_{n+1} = U* + dt*f(U*, V*) and
\* V_{n+1} = V* + dt*g(U*, V*): A acts once, in the solve.
C7_TwoPhaseScheme ==
    [][/\ (op = "imex_solver" /\ pc = "diffusion") =>
             /\ MatVec(SystemMatrix(A, delta_t, par.sigma, par.D_1), U') = U
             /\ MatVec(SystemMatrix(A, delta_t, par.sigma, par.D_2), V') = V
       /\ (op = "imex_solver" /\ pc = "reaction" /\ pc' = "output") =>
             <<U', V'>> = forward_euler_reaction_step(U, V, delta_t, par).val]_vars

\* C8: forward_euler_coupled_solver advances the fields with the diffusion
\* coefficients D_1, D_2 its caller supplies: each iteration computes
\* U_{n+1} = U_n + dt*(sigma*D_1*A*U_n + f(U_n, V_n)) and
\* V_{n+1} = V_n + dt*(sigma*D_2*A*V_n + g(U_n, V_n)).
C8_CallerCoefficients ==
    [][(op = "forward_euler_coupled_solver" /\ pc = "step" /\ pc' = "output") =>
          <<U', V'>> = forward_euler_step(U, V, delta_t, A, par.sigma, par,
                                          par.D_1, par.D_2).val]_vars

Driver == op \in {"forward_euler_coupled_solver", "imex_solver"} /\ pc # "setup"
TFinal == IF op = "imex_solver" THEN ImexTFinal ELSE ExplicitTFinal
Interval == IF op = "imex_solver" THEN ImexInterval ELSE ExplicitInterval

\* iterations whose state update has run
Updated == IF pc \in {"output", "loop", "done"} THEN j + 1 ELSE j

\* C9: in both drivers the loop ends after exactly
\* num_steps = round(t_final / dt) iterations, num_steps being computed once
\* and never changed; an iteration updates the state once and then advances t
\* by dt, so t = (iterations run) * dt.
C9_FixedIterationCount ==
    Driver =>
        /\ num_steps = NumSteps(TFinal, delta_t)
        /\ t = RMul(Z(Updated), delta_t)
        /\ j < num_steps \/ j = -1
        /\ pc \in {"done", "raised"} => pc = "done" /\ Updated = num_steps

\* a multiple of the output interval lies in (t - delta_t, t]; the first
\* iteration leaves the multiple 0
Crossed ==
    \/ j = 0
    \/ RFloor(RDiv(t, Z(Interval))) > RFloor(RDiv(RSub(t, delta_t), Z(Interval)))

\* C10: in both drivers the end of an iteration draws a snapshot exactly when
\* t >= next_output_time, which is when the elapsed time has passed a multiple
\* of the output interval (50 explicit, 5 IMEX); next_output_time starts at 0,
\* never decreases and grows by one interval with each snapshot, so that it is
\* (snapshots drawn) * interval, and an iteration draws at most one snapshot.
C10_SnapshotSchedule ==
    /\ [](Driver => /\ next_output_time = RMul(Z(Len(plots)), Z(Interval))
                    /\ Len(plots) <= Updated)
    /\ [][Driver =>
            /\ RLe(next_output_time, next_output_time')
            /\ IF pc = "output"
               THEN /\ RLe(next_output_time, t) <=> Crossed
                    /\ IF RLe(next_output_time, t)
                       THEN /\ plots' = Append(plots, <<t, U>>)
                            /\ next_output_time' =
                                   RAdd(next_output_time, Z(Interval))
                       ELSE UNCHANGED <<plots, next_output_time>>
               ELSE UNCHANGED <<plots, next_output_time>>]_vars

\* an iteration has ended without a snapshot after two that drew one
C10_Witness ==
    /\ Driver /\ pc = "loop"
    /\ Len(plots) >= 2
    /\ Len(plots) < Updated
    /\ RLt(t, next_output_time)

=============================================================================
